---------------------------- MODULE Spec2Model ----------------------------
(***************************************************************************)
(* Model of the stock analysis tools: StockAnalyzer (stock_analyzer.py),   *)
(* AdvancedStockAnalyzer (advanced_analyzer.py) and StockComparator        *)
(* (compare_stocks.py).                                                    *)
(*                                                                         *)
(* Numbers.  A close is held in mills (1/1000 dollar), so that round(x, 2) *)
(* is a real conversion.  A value rounded to 2 decimals is held as the     *)
(* integer number of hundredths (cents for prices, 1/100 percent for       *)
(* percentages); strength_score, rounded to 1 decimal, is held in tenths.  *)
(* Python's None is the empty tuple and a number v is <<v>>.               *)
(* A DataFrame is the sequence of its Close column, oldest bar first: the  *)
(* other columns are only copied into current_stats and printed.           *)
(***************************************************************************)
EXTENDS Integers, Sequences, FiniteSets, TLC

VARIABLES
    pc,               \* position of the stock_analyzer run
    caller,           \* "main" (stock_analyzer.main) or "api" (methods called directly)
    i,                \* loop index into the tracked tickers
    supplied,         \* what the data supplier answered for each ticker so far
    results,          \* analyze_all_stocks: results dict
    file,             \* stock_analysis.json: <<>> while absent, <<results>> once saved
    rpc,              \* position of the compare_stocks run
    data,             \* StockComparator.data
    performers,       \* generate_report: performers
    trend_rows,       \* generate_report: the rows of the trend table
    momentum_scores,  \* generate_report: momentum_scores
    insights,         \* generate_report: what KEY INSIGHTS shows
    spc,              \* position of the summary.py run (display_summary)
    fdf,              \* the series handed to the function under study
    op,               \* the function applied to fdf
    out               \* its return value

vars == <<pc, caller, i, supplied, results, file, rpc, data, performers,
          trend_rows, momentum_scores, insights, spc, fdf, op, out>>

pipeVars == <<pc, caller, i, supplied, results, file, rpc, data, performers,
              trend_rows, momentum_scores, insights, spc>>

fnVars == <<fdf, op, out>>

---------------------------------------------------------------------------
(* Bounds *)

\* longest series the supplier returns to the functions under study
MaxLen == 253

\* how many of the tracked tickers a run analyses
NumTickers == 3

---------------------------------------------------------------------------
(* Python values *)

None == <<>>

Some(v) == <<v>>

\* the empty dict {}
EmptyDict == [k \in {} |-> None]

\* bool(x) of an optional number: None and 0 are falsy
Truthy(x) == x # None /\ x[1] # 0

\* round-half-to-even of num / den, den > 0
RoundDiv(num, den) ==
    LET q == num \div den
        r == num % den
    IN  IF 2 * r < den THEN q
        ELSE IF 2 * r > den THEN q + 1
        ELSE IF q % 2 = 0 THEN q ELSE q + 1

\* round-half-to-even of 10000 * num / den, den > 0, by long division (the
\* product 10000 * num does not fit the model checker's integers)
RoundDiv10000(num, den) ==
    LET q0 == num \div den
        r0 == num % den
        d1 == (10 * r0) \div den
        r1 == (10 * r0) % den
        d2 == (10 * r1) \div den
        r2 == (10 * r1) % den
        d3 == (10 * r2) \div den
        r3 == (10 * r2) % den
        d4 == (10 * r3) \div den
        r4 == (10 * r3) % den
        q == 10000 * q0 + 1000 * d1 + 100 * d2 + 10 * d3 + d4
    IN  IF 2 * r4 < den THEN q
        ELSE IF 2 * r4 > den THEN q + 1
        ELSE IF q % 2 = 0 THEN q ELSE q + 1

\* round(x, 2) of a price in mills, in cents
Round2(mills) == RoundDiv(mills, 10)

\* df['Close'].iloc[-k]
ILoc(df, k) == df[Len(df) - k + 1]

RECURSIVE SumRange(_, _, _)
\* sum of df[lo..hi], by halves
SumRange(df, lo, hi) ==
    IF lo > hi THEN 0
    ELSE IF lo = hi THEN df[lo]
    ELSE LET mid == (lo + hi) \div 2
         IN  SumRange(df, lo, mid) + SumRange(df, mid + 1, hi)

RECURSIVE MaxRange(_, _, _)
\* max of df[lo..hi], lo <= hi
MaxRange(df, lo, hi) ==
    IF lo = hi THEN df[lo]
    ELSE LET mid == (lo + hi) \div 2
             a == MaxRange(df, lo, mid)
             b == MaxRange(df, mid + 1, hi)
         IN  IF a > b THEN a ELSE b

RECURSIVE MinRange(_, _, _)
\* min of df[lo..hi], lo <= hi
MinRange(df, lo, hi) ==
    IF lo = hi THEN df[lo]
    ELSE LET mid == (lo + hi) \div 2
             a == MinRange(df, lo, mid)
             b == MinRange(df, mid + 1, hi)
         IN  IF a < b THEN a ELSE b

\* sum of the closes of the most recent p bars
TailSum(df, p) == SumRange(df, Len(df) - p + 1, Len(df))

---------------------------------------------------------------------------
(* Configuration *)

\* STOCKS.keys(), in insertion order
TickerSeq == <<"META", "AAPL", "AMZN", "NFLX", "GOOGL", "MSFT", "NVDA", "UBER">>

\* STOCKS.get(symbol, 'Unknown')
StockName(symbol) ==
    CASE symbol = "META" -> "Meta (Facebook)"
      [] symbol = "AAPL" -> "Apple"
      [] symbol = "AMZN" -> "Amazon"
      [] symbol = "NFLX" -> "Netflix"
      [] symbol = "GOOGL" -> "Google (Alphabet)"
      [] symbol = "MSFT" -> "Microsoft"
      [] symbol = "NVDA" -> "NVIDIA"
      [] symbol = "UBER" -> "Uber"
      [] OTHER -> "Unknown"

\* the tickers a run analyses
Tracked == {TickerSeq[k] : k \in 1..NumTickers}

ma_periods == {15, 30, 50, 100, 200}

\* f'{period}d_MA'
MAKey(period) ==
    CASE period = 15 -> "15d_MA"
      [] period = 30 -> "30d_MA"
      [] period = 50 -> "50d_MA"
      [] period = 100 -> "100d_MA"
      [] period = 200 -> "200d_MA"

\* f'{period}d_MA_diff_%'
MADiffKey(period) ==
    CASE period = 15 -> "15d_MA_diff_%"
      [] period = 30 -> "30d_MA_diff_%"
      [] period = 50 -> "50d_MA_diff_%"
      [] period = 100 -> "100d_MA_diff_%"
      [] period = 200 -> "200d_MA_diff_%"

change_days == {1, 5, 15, 30, 90}

\* f'{days}d_change_%'
ChangeKey(days) ==
    CASE days = 1 -> "1d_change_%"
      [] days = 5 -> "5d_change_%"
      [] days = 15 -> "15d_change_%"
      [] days = 30 -> "30d_change_%"
      [] days = 90 -> "90d_change_%"

---------------------------------------------------------------------------
(* Series the supplier can return *)

Kinds == {"flat", "up", "down", "zig", "spike", "dip", "nudge",
          "vee5", "vee10", "vee20", "vee40"}

Abs(x) == IF x < 0 THEN -x ELSE x

\* a fall that turned into a rise `pivot` bars before the latest bar
Vee(pivot, n, k) == 100000 + 1000 * Abs((n - k) - pivot)

\* close of bar k of an n-bar series, in mills; every close is positive
CloseAt(kind, n, k) ==
    CASE kind = "flat" -> 100000
      [] kind = "up" -> 100000 + 1000 * (k - 1)
      [] kind = "down" -> 400000 - 1000 * (k - 1)
      [] kind = "zig" -> 100000 + 337 * k + (IF k % 2 = 0 THEN 2500 ELSE 0)
      [] kind = "spike" -> IF k = n THEN 110000 ELSE 100000
      [] kind = "dip" -> IF k = n THEN 95000 ELSE 100000
      [] kind = "nudge" -> IF k = n THEN 1000010 ELSE 1000000
      [] kind = "vee5" -> Vee(5, n, k)
      [] kind = "vee10" -> Vee(10, n, k)
      [] kind = "vee20" -> Vee(20, n, k)
      [] kind = "vee40" -> Vee(40, n, k)

Series(kind, n) == [k \in 1..n |-> CloseAt(kind, n, k)]

\* every series handed to the functions under study, the empty one included
AllSeries == {Series(kind, n) : kind \in Kinds, n \in 0..MaxLen}

---------------------------------------------------------------------------
(* StockAnalyzer (stock_analyzer.py) *)

\* what the supplier (yfinance) does on one call: it returns bars, possibly
\* none, or raises
SupplierBars(bars) == [kind |-> "bars", bars |-> bars]

SupplierRaises == [kind |-> "raise", bars |-> <<>>]

\* fetch_stock_data / fetch_yahoo_data: an exception becomes an empty frame
fetch_stock_data(answer) ==
    IF answer.kind = "raise" THEN <<>> ELSE answer.bars

\* round(((a - b) / b) * 100, 2), a and b in mills, in 1/100 percent
PctChange(a, b) == RoundDiv10000(a - b, b)

\* MovingAverage with the window test off by one (len(df) > period)
MovingAverage_strict(df, period) ==
    IF Len(df) > period
    THEN Some(RoundDiv(TailSum(df, period), 10 * period))
    ELSE None

\* one entry of calculate_moving_averages: the period-day MA in cents, or None
MovingAverage(df, period) ==
    IF Len(df) >= period
    THEN Some(RoundDiv(TailSum(df, period), 10 * period))
    ELSE None

PeriodOfMAKey(key) == CHOOSE p \in ma_periods : MAKey(p) = key

calculate_moving_averages(df, periods) ==
    IF Len(df) = 0 THEN EmptyDict
    ELSE [key \in {MAKey(p) : p \in periods} |->
              MovingAverage(df, PeriodOfMAKey(key))]

get_current_stats(df) ==
    IF Len(df) = 0 THEN EmptyDict
    ELSE [current_price |-> Round2(ILoc(df, 1))]

\* the change over `days` as analyze_stock computes it; current_price in cents
BasicChange(df, current_price, days) ==
    IF Len(df) >= days
    THEN Some(PctChange(10 * current_price, ILoc(df, days)))
    ELSE None

ErrorMarker == [error |-> "Failed to fetch data"]

\* analyze_stock without the marker for an empty frame
analyze_stock_unmarked(symbol, df) ==
    IF Len(df) = 0
    THEN [symbol |-> symbol, name |-> StockName(symbol),
          current_stats |-> EmptyDict, moving_averages |-> EmptyDict]
    ELSE [symbol |-> symbol, name |-> StockName(symbol),
          current_stats |-> get_current_stats(df),
          moving_averages |-> calculate_moving_averages(df, ma_periods),
          price_changes |->
              ("15_day_change_%" :> BasicChange(df, Round2(ILoc(df, 1)), 15))
           @@ ("30_day_change_%" :> BasicChange(df, Round2(ILoc(df, 1)), 30))]

analyze_stock(symbol, df) ==
    IF Len(df) = 0 THEN ErrorMarker
    ELSE LET stats == get_current_stats(df)
         IN  [symbol |-> symbol,
              name |-> StockName(symbol),
              current_stats |-> stats,
              moving_averages |-> calculate_moving_averages(df, ma_periods),
              price_changes |->
                  ("15_day_change_%" :> BasicChange(df, stats.current_price, 15))
               @@ ("30_day_change_%" :> BasicChange(df, stats.current_price, 30))]

---------------------------------------------------------------------------
(* AdvancedStockAnalyzer (advanced_analyzer.py) *)

\* a deviation measured against the mean as reported, rounded to the cent
MADiff_rounded_ma(df, period) ==
    IF Len(df) >= period
    THEN Some(RoundDiv10000(ILoc(df, 1) - 10 * RoundDiv(TailSum(df, period), 10 * period),
                            10 * RoundDiv(TailSum(df, period), 10 * period)))
    ELSE None

\* the deviation of the latest close from the period-day MA, in 1/100 percent:
\* round(((close - ma) / ma) * 100, 2) with ma the unrounded mean
MADiff(df, period) ==
    IF Len(df) >= period
    THEN Some(RoundDiv10000(ILoc(df, 1) * period - TailSum(df, period),
                            TailSum(df, period)))
    ELSE None

adv_calculate_moving_averages(df, periods) ==
    IF Len(df) = 0 THEN EmptyDict
    ELSE [key \in {MAKey(p) : p \in periods} \cup {MADiffKey(p) : p \in periods} |->
              IF key \in {MAKey(p) : p \in periods}
              THEN MovingAverage(df, PeriodOfMAKey(key))
              ELSE MADiff(df, CHOOSE p \in periods : MADiffKey(p) = key)]

\* a float that may be NaN; val in hundredths
Float(v) == [nan |-> FALSE, val |-> v]

NaN == [nan |-> TRUE, val |-> 0]

\* delta.where(delta > 0, 0) at bar k: the first delta is NaN and becomes 0
GainAt(df, k) == IF k > 1 /\ df[k] - df[k - 1] > 0 THEN df[k] - df[k - 1] ELSE 0

\* -delta.where(delta < 0, 0) at bar k
LossAt(df, k) == IF k > 1 /\ df[k] - df[k - 1] < 0 THEN df[k - 1] - df[k] ELSE 0

RECURSIVE GainSum(_, _, _)
GainSum(df, lo, hi) == IF lo > hi THEN 0 ELSE GainAt(df, hi) + GainSum(df, lo, hi - 1)

RECURSIVE LossSum(_, _, _)
LossSum(df, lo, hi) == IF lo > hi THEN 0 ELSE LossAt(df, hi) + LossSum(df, lo, hi - 1)

\* rsi.iloc[-1] rounded to 2 decimals: rolling(14).mean() of gains and of
\* losses, rs = gain / loss in floating point (x/0 is inf, 0/0 is NaN),
\* rsi = 100 - 100 / (1 + rs)
RSI14(df) ==
    LET n == Len(df)
        gain == GainSum(df, n - 13, n)
        loss == LossSum(df, n - 13, n)
    IN  IF n < 14 THEN NaN
        ELSE IF loss = 0 THEN (IF gain = 0 THEN NaN ELSE Float(10000))
        ELSE Float(RoundDiv10000(gain, gain + loss))

\* the guard of calculate_technical_indicators that returns {} early
TooShortForIndicators(df) == Len(df) = 0 \/ Len(df) < 20

\* indicators whose 52-week range is taken over the whole frame
calculate_technical_indicators_whole(df) ==
    IF TooShortForIndicators(df) THEN EmptyDict
    ELSE [key \in (IF Len(df) >= 14 THEN {"RSI_14"} ELSE {})
                  \cup (IF Len(df) >= 252 THEN {"52w_high", "52w_low"} ELSE {}) |->
              CASE key = "RSI_14" -> RSI14(df)
                [] key = "52w_high" -> Round2(MaxRange(df, 1, Len(df)))
                [] key = "52w_low" -> Round2(MinRange(df, 1, Len(df)))]

\* volatility_30d and avg_volume_30d are computed from the returns and the
\* Volume column and are not carried by this model
calculate_technical_indicators(df) ==
    IF TooShortForIndicators(df) THEN EmptyDict
    ELSE [key \in (IF Len(df) >= 14 THEN {"RSI_14"} ELSE {})
                  \cup (IF Len(df) >= 252 THEN {"52w_high", "52w_low"} ELSE {}) |->
              CASE key = "RSI_14" -> RSI14(df)
                [] key = "52w_high" -> Round2(MaxRange(df, Len(df) - 251, Len(df)))
                [] key = "52w_low" -> Round2(MinRange(df, Len(df) - 251, Len(df)))]

\* whether analyze_stock_comprehensive reports the change over `days`
HasChange(df, days) == Len(df) >= days

\* the bar whose close the change over `days` is measured against
OldPrice(df, days) == ILoc(df, days)

adv_price_changes(df, current_price) ==
    [key \in {ChangeKey(d) : d \in {d \in change_days : HasChange(df, d)}} |->
        LET days == CHOOSE d \in change_days : ChangeKey(d) = key
        IN  PctChange(10 * current_price, OldPrice(df, days))]

\* no API keys are configured (main constructs the analyzer without any), so
\* the Alpha Vantage and Polygon branches add nothing; the timestamp is omitted
analyze_stock_comprehensive(symbol, df) ==
    IF Len(df) # 0
    THEN [symbol |-> symbol,
          name |-> StockName(symbol),
          current_stats |-> [current_price |-> Round2(ILoc(df, 1))],
          moving_averages |-> adv_calculate_moving_averages(df, ma_periods),
          technical_indicators |-> calculate_technical_indicators(df),
          price_changes |-> adv_price_changes(df, Round2(ILoc(df, 1)))]
    ELSE [symbol |-> symbol,
          name |-> StockName(symbol),
          error |-> "Failed to fetch Yahoo Finance data"]

---------------------------------------------------------------------------
(* StockComparator (compare_stocks.py) *)

\* the keys of a loaded batch in file order, which is STOCKS order
KeysInOrder(d) == SelectSeq(TickerSeq, LAMBDA t : t \in DOMAIN d)

RECURSIVE InsertDesc(_, _)
\* sorted(..., key=lambda x: x[1], reverse=True) is stable: a pair goes behind
\* every pair whose value is greater or equal
InsertDesc(sorted, pair) ==
    IF sorted = <<>> THEN <<pair>>
    ELSE IF Head(sorted)[2] >= pair[2]
         THEN <<Head(sorted)>> \o InsertDesc(Tail(sorted), pair)
         ELSE <<pair>> \o sorted

RECURSIVE SortDesc(_)
SortDesc(pairs) ==
    IF pairs = <<>> THEN <<>>
    ELSE InsertDesc(SortDesc(SubSeq(pairs, 1, Len(pairs) - 1)), pairs[Len(pairs)])

\* a ranking test that takes a change of 0 for a missing one
HasPerformance_truthy(d, symbol, period) ==
    /\ "price_changes" \in DOMAIN d[symbol]
    /\ period \in DOMAIN d[symbol].price_changes
    /\ Truthy(d[symbol].price_changes[period])

\* whether get_best_performers ranks the ticker
HasPerformance(d, symbol, period) ==
    /\ "price_changes" \in DOMAIN d[symbol]
    /\ period \in DOMAIN d[symbol].price_changes
    /\ d[symbol].price_changes[period] # None

get_best_performers(d, period) ==
    LET ranked == SelectSeq(KeysInOrder(d), LAMBDA t : HasPerformance(d, t, period))
    IN  SortDesc([k \in 1..Len(ranked) |->
                     <<ranked[k], d[ranked[k]].price_changes[period][1]>>])

\* 'd_MA' in ma_name
ContainsDMA(ma_name) ==
    ma_name \in {MAKey(p) : p \in ma_periods} \cup {MADiffKey(p) : p \in ma_periods}

\* the test that admits an entry of moving_averages to above_below
Participates(ma_name, ma_value) == Truthy(ma_value) /\ ContainsDMA(ma_name)

\* above_below[ma_name]
IsAbove(price, ma_value) == price > ma_value

\* TrendLabel with exclusive lower bounds (> in place of >=)
TrendLabel_exclusive(above_count, total_count) ==
    LET s == IF total_count > 0 THEN above_count * 100 ELSE 0
        t == IF total_count > 0 THEN total_count ELSE 1
    IN  IF s > 80 * t THEN "Strong Bullish"
        ELSE IF s > 60 * t THEN "Moderately Bullish"
        ELSE IF s > 40 * t THEN "Neutral"
        ELSE IF s > 20 * t THEN "Moderately Bearish"
        ELSE "Strong Bearish"

\* the if / elif chain on trend_strength = above_count / total_count * 100
TrendLabel(above_count, total_count) ==
    LET s == IF total_count > 0 THEN above_count * 100 ELSE 0
        t == IF total_count > 0 THEN total_count ELSE 1
    IN  IF s >= 80 * t THEN "Strong Bullish"
        ELSE IF s >= 60 * t THEN "Moderately Bullish"
        ELSE IF s >= 40 * t THEN "Neutral"
        ELSE IF s >= 20 * t THEN "Moderately Bearish"
        ELSE "Strong Bearish"

\* round(trend_strength, 1), in tenths
StrengthScore(above_count, total_count) ==
    IF total_count > 0 THEN RoundDiv(1000 * above_count, total_count) ELSE 0

analyze_trend_strength(d, symbol) ==
    IF symbol \notin DOMAIN d THEN EmptyDict
    ELSE IF "current_stats" \notin DOMAIN d[symbol]
            \/ "moving_averages" \notin DOMAIN d[symbol] THEN EmptyDict
    ELSE LET price == d[symbol].current_stats.current_price
             ma == d[symbol].moving_averages
             above_below == {k \in DOMAIN ma : Participates(k, ma[k])}
             above_count == Cardinality({k \in above_below : IsAbove(price, ma[k][1])})
             total_count == Cardinality(above_below)
         IN  [trend |-> TrendLabel(above_count, total_count),
              strength_score |-> StrengthScore(above_count, total_count),
              above_mas |-> above_count,
              total_mas |-> total_count]

\* a period test that takes a change of 0 for a missing one
InMomentum_truthy(changes, period) == period \in DOMAIN changes /\ Truthy(changes[period])

\* whether the period takes part in the momentum score
InMomentum(changes, period) == period \in DOMAIN changes /\ changes[period] # None

\* weights 0.4 and 0.6 in tenths; score / total_weight rounded to 2 decimals
get_momentum_score(d, symbol) ==
    IF symbol \notin DOMAIN d \/ "price_changes" \notin DOMAIN d[symbol] THEN 0
    ELSE LET changes == d[symbol].price_changes
             w15 == IF InMomentum(changes, "15_day_change_%") THEN 4 ELSE 0
             w30 == IF InMomentum(changes, "30_day_change_%") THEN 6 ELSE 0
             score == (IF w15 > 0 THEN changes["15_day_change_%"][1] * w15 ELSE 0)
                    + (IF w30 > 0 THEN changes["30_day_change_%"][1] * w30 ELSE 0)
         IN  IF w15 + w30 > 0 THEN RoundDiv(score, w15 + w30) ELSE 0

---------------------------------------------------------------------------
(* The stock_analyzer run: analyze_all_stocks, print_analysis, save_to_json *)

\* the series the supplier returns during a run
RunSeries == {Series("up", 210), Series("vee10", 205), Series("down", 35),
              Series("spike", 20), Series("dip", 10)}

\* what the supplier can answer to one fetch
SupplierAnswers ==
    {SupplierRaises, SupplierBars(<<>>)} \cup {SupplierBars(s) : s \in RunSeries}

\* print_analysis reads analysis['symbol'] and analysis['name'] for the header
\* before it looks for 'error': a missing key raises KeyError
print_analysis_raises(analysis) ==
    "symbol" \notin DOMAIN analysis \/ "name" \notin DOMAIN analysis

\* nothing shown yet
NoInsights ==
    [best |-> <<>>, worst |-> <<>>, highest_momentum |-> <<>>,
     strong_bullish |-> <<>>, bearish |-> <<>>]

Init ==
    /\ pc = "analyze"
    /\ caller \in {"main", "api"}
    /\ i = 1
    /\ supplied = EmptyDict
    /\ results = EmptyDict
    /\ file = <<>>
    /\ rpc = "idle"
    /\ data = EmptyDict
    /\ performers = <<>>
    /\ trend_rows = <<>>
    /\ momentum_scores = <<>>
    /\ insights = NoInsights
    /\ spc = "idle"
    /\ fdf = <<>>
    /\ op = "none"
    /\ out = None

\* one iteration of the loop of analyze_all_stocks; after the last one main
\* goes on to print, a direct caller to save_to_json
AnalyzeNext ==
    /\ pc = "analyze"
    /\ \E answer \in SupplierAnswers :
         LET symbol == TickerSeq[i]
         IN  /\ supplied' = supplied @@ (symbol :> answer)
             /\ results' = results @@ (symbol :> analyze_stock(symbol, fetch_stock_data(answer)))
    /\ i' = IF i = NumTickers THEN 1 ELSE i + 1
    /\ pc' = IF i < NumTickers THEN "analyze"
             ELSE IF caller = "main" THEN "print" ELSE "save"
    /\ UNCHANGED <<caller, file, rpc, data, performers, trend_rows, momentum_scores>>
    /\ UNCHANGED <<insights, spc>>
    /\ UNCHANGED fnVars

\* one iteration of main's loop over results.items(): print_analysis(analysis);
\* an uncaught KeyError ends the run
PrintNext ==
    /\ pc = "print"
    /\ IF print_analysis_raises(results[TickerSeq[i]])
       THEN pc' = "KeyError" /\ i' = i
       ELSE /\ i' = IF i = NumTickers THEN 1 ELSE i + 1
            /\ pc' = IF i < NumTickers THEN "print" ELSE "save"
    /\ UNCHANGED <<caller, supplied, results, file, rpc, data, performers,
                   trend_rows, momentum_scores>>
    /\ UNCHANGED <<insights, spc>>
    /\ UNCHANGED fnVars

\* save_to_json(results)
SaveToJson ==
    /\ pc = "save"
    /\ file' = <<results>>
    /\ pc' = IF caller = "main" THEN "summary" ELSE "done"
    /\ UNCHANGED <<caller, i, supplied, results, rpc, data, performers,
                   trend_rows, momentum_scores>>
    /\ UNCHANGED <<insights, spc>>
    /\ UNCHANGED fnVars

\* main's summary table: rows for the entries without 'error'
SummaryTable ==
    /\ pc = "summary"
    /\ pc' = "done"
    /\ UNCHANGED <<caller, i, supplied, results, file, rpc, data, performers,
                   trend_rows, momentum_scores>>
    /\ UNCHANGED <<insights, spc>>
    /\ UNCHANGED fnVars

---------------------------------------------------------------------------
(* The compare_stocks run: StockComparator() and generate_report *)

\* StockComparator.__init__ and the test `if comparator.data` of main;
\* the run starts once the stock_analyzer run has ended
ComparatorInit ==
    /\ rpc = "idle"
    /\ pc \in {"done", "KeyError"}
    /\ data' = IF file = <<>> THEN EmptyDict ELSE file[1]
    /\ rpc' = IF DOMAIN data' = {} THEN "no_data" ELSE "perf"
    /\ UNCHANGED <<pc, caller, i, supplied, results, file, performers,
                   trend_rows, momentum_scores>>
    /\ UNCHANGED <<insights, spc>>
    /\ UNCHANGED fnVars

\* PERFORMANCE RANKINGS: every ranked ticker has price_changes, so a full record
ReportPerformance ==
    /\ rpc = "perf"
    /\ performers' = get_best_performers(data, "30_day_change_%")
    /\ rpc' = IF \E k \in 1..Len(performers') : "name" \notin DOMAIN data[performers'[k][1]]
              THEN "KeyError" ELSE "trend"
    /\ UNCHANGED <<pc, caller, i, supplied, results, file, data, trend_rows,
                   momentum_scores>>
    /\ UNCHANGED <<insights, spc>>
    /\ UNCHANGED fnVars

\* TREND STRENGTH ANALYSIS: a row for every ticker with a non-empty trend_data
ReportTrend ==
    /\ rpc = "trend"
    /\ LET shown == SelectSeq(KeysInOrder(data),
                        LAMBDA t : DOMAIN analyze_trend_strength(data, t) # {})
       IN  /\ trend_rows' = [k \in 1..Len(shown) |->
                                <<shown[k], analyze_trend_strength(data, shown[k])>>]
           /\ rpc' = IF \E k \in 1..Len(shown) : "name" \notin DOMAIN data[shown[k]]
                     THEN "KeyError" ELSE "momentum"
    /\ UNCHANGED <<pc, caller, i, supplied, results, file, data, performers,
                   momentum_scores>>
    /\ UNCHANGED <<insights, spc>>
    /\ UNCHANGED fnVars

\* MOMENTUM SCORES: a score for every key of data, then data[symbol]['name']
\* for every one of them
ReportMomentum ==
    /\ rpc = "momentum"
    /\ LET keys == KeysInOrder(data)
       IN  momentum_scores' =
               SortDesc([k \in 1..Len(keys) |-> <<keys[k], get_momentum_score(data, keys[k])>>])
    /\ rpc' = IF \E t \in DOMAIN data : "name" \notin DOMAIN data[t]
              THEN "KeyError" ELSE "prices"
    /\ UNCHANGED <<pc, caller, i, supplied, results, file, data, performers,
                   trend_rows>>
    /\ UNCHANGED <<insights, spc>>
    /\ UNCHANGED fnVars

\* the MAs the price table formats with :<11.2f
TableMAs == {"15d_MA", "30d_MA", "50d_MA", "200d_MA"}

\* ma.get(key, 0) is None when the key is present with value None, and
\* format(None, '<11.2f') raises TypeError
price_row_raises(stock) ==
    \E key \in TableMAs :
        key \in DOMAIN stock.moving_averages /\ stock.moving_averages[key] = None

\* CURRENT PRICES & KEY AVERAGES
ReportPrices ==
    /\ rpc = "prices"
    /\ rpc' = IF \E t \in DOMAIN data :
                   /\ "current_stats" \in DOMAIN data[t]
                   /\ "moving_averages" \in DOMAIN data[t]
                   /\ price_row_raises(data[t])
              THEN "TypeError" ELSE "insights"
    /\ UNCHANGED <<pc, caller, i, supplied, results, file, data, performers,
                   trend_rows, momentum_scores>>
    /\ UNCHANGED <<insights, spc>>
    /\ UNCHANGED fnVars

\* self.analyze_trend_strength(symbol).get('strength_score', 0), in tenths
ScoreOrDefault(d, symbol) ==
    LET trend_data == analyze_trend_strength(d, symbol)
    IN  IF "strength_score" \in DOMAIN trend_data THEN trend_data.strength_score ELSE 0

\* the test of the strong_bullish list: score >= 80
InStrongBullish(d, symbol) == ScoreOrDefault(d, symbol) >= 800

\* the test of the bearish list ("Below Most MAs"): score < 40
InBearish(d, symbol) == ScoreOrDefault(d, symbol) < 400

\* KEY INSIGHTS and the closing banner: head and tail of performers, head of
\* momentum_scores, and the two cohorts in the order of self.data.keys()
ReportInsights ==
    /\ rpc = "insights"
    /\ insights' =
          [best |-> IF performers # <<>> THEN <<performers[1]>> ELSE <<>>,
           worst |-> IF performers # <<>> THEN <<performers[Len(performers)]>> ELSE <<>>,
           highest_momentum |-> IF momentum_scores # <<>> THEN <<momentum_scores[1]>> ELSE <<>>,
           strong_bullish |-> SelectSeq(KeysInOrder(data), LAMBDA t : InStrongBullish(data, t)),
           bearish |-> SelectSeq(KeysInOrder(data), LAMBDA t : InBearish(data, t))]
    /\ rpc' = "done"
    /\ UNCHANGED <<pc, caller, i, supplied, results, file, data, performers,
                   trend_rows, momentum_scores, spc>>
    /\ UNCHANGED fnVars

---------------------------------------------------------------------------
(* The summary.py run: display_summary *)

\* what one pass of the loop of display_summary does with a stock: it reads
\* name, current_stats.current_price and price_changes['30_day_change_%'],
\* formats the change with :+.2f, reads moving_averages['30d_MA'] and
\* compares current > ma_30
summary_row_outcome(stock) ==
    IF "name" \notin DOMAIN stock \/ "current_stats" \notin DOMAIN stock
       \/ "price_changes" \notin DOMAIN stock THEN "KeyError"
    ELSE IF "30_day_change_%" \notin DOMAIN stock.price_changes THEN "KeyError"
    ELSE IF stock.price_changes["30_day_change_%"] = None THEN "TypeError"
    ELSE IF "moving_averages" \notin DOMAIN stock
            \/ "30d_MA" \notin DOMAIN stock.moving_averages THEN "KeyError"
    ELSE IF stock.moving_averages["30d_MA"] = None THEN "TypeError"
    ELSE "ok"

\* display_summary on the saved file: the first exception ends it
display_summary_outcome(f) ==
    IF f = <<>> THEN "FileNotFoundError"
    ELSE LET keys == KeysInOrder(f[1])
             bad == {k \in 1..Len(keys) : summary_row_outcome(f[1][keys[k]]) # "ok"}
         IN  IF bad = {} THEN "done"
             ELSE summary_row_outcome(f[1][keys[CHOOSE k \in bad : \A j \in bad : k <= j]])

\* summary.py, run once the stock_analyzer run has ended
DisplaySummary ==
    /\ spc = "idle"
    /\ pc \in {"done", "KeyError"}
    /\ spc' = display_summary_outcome(file)
    /\ UNCHANGED <<pc, caller, i, supplied, results, file, rpc, data, performers,
                   trend_rows, momentum_scores, insights>>
    /\ UNCHANGED fnVars

Next ==
    \/ DisplaySummary
    \/ AnalyzeNext
    \/ PrintNext
    \/ SaveToJson
    \/ SummaryTable
    \/ ComparatorInit
    \/ ReportPerformance
    \/ ReportTrend
    \/ ReportMomentum
    \/ ReportPrices
    \/ ReportInsights

Spec == Init /\ [][Next]_vars

---------------------------------------------------------------------------
(* The compare_stocks run on a saved batch: the file is what a finished run of
   stock_analyzer (analyze_all_stocks, save_to_json) or of advanced_analyzer
   (main) has written, and StockComparator is given that file *)

\* the series behind the saved batches
CmpSeries == {Series("spike", 30), Series("dip", 30), Series("flat", 30),
              Series("spike", 20), Series("up", 210), Series("down", 210)}

\* what the supplier answered for one ticker of the batch
CmpAnswers == {SupplierRaises} \cup {SupplierBars(s) : s \in CmpSeries}

\* the record each producer stores for a ticker
ProducedRecord(producer, symbol, answer) ==
    IF producer = "advanced"
    THEN analyze_stock_comprehensive(symbol, fetch_stock_data(answer))
    ELSE analyze_stock(symbol, fetch_stock_data(answer))

InitCmp ==
    /\ pc = "done"
    /\ caller \in {"api", "advanced"}
    /\ i = 1
    /\ supplied \in [Tracked -> CmpAnswers]
    /\ results = [t \in Tracked |-> ProducedRecord(caller, t, supplied[t])]
    /\ file = <<results>>
    /\ rpc = "idle"
    /\ data = EmptyDict
    /\ performers = <<>>
    /\ trend_rows = <<>>
    /\ momentum_scores = <<>>
    /\ insights = NoInsights
    /\ spc = "idle"
    /\ fdf = <<>>
    /\ op = "none"
    /\ out = None

NextCmp ==
    \/ ComparatorInit
    \/ ReportPerformance
    \/ ReportTrend
    \/ ReportMomentum
    \/ ReportPrices
    \/ ReportInsights

SpecCmp == InitCmp /\ [][NextCmp]_vars

---------------------------------------------------------------------------
(* The functions on their own: one series in, one call *)

InitFn ==
    /\ pc = "analyze"
    /\ caller = "main"
    /\ i = 1
    /\ supplied = EmptyDict
    /\ results = EmptyDict
    /\ file = <<>>
    /\ rpc = "idle"
    /\ data = EmptyDict
    /\ performers = <<>>
    /\ trend_rows = <<>>
    /\ momentum_scores = <<>>
    /\ insights = NoInsights
    /\ spc = "idle"
    /\ fdf \in AllSeries
    /\ op = "none"
    /\ out = None

\* the call op(fdf) returning value
Call(name, value) ==
    /\ op = "none"
    /\ op' = name
    /\ out' = value
    /\ fdf' = fdf
    /\ UNCHANGED pipeVars

CallMovingAverages ==
    Call("calculate_moving_averages", calculate_moving_averages(fdf, ma_periods))

CallAdvMovingAverages ==
    Call("adv_calculate_moving_averages", adv_calculate_moving_averages(fdf, ma_periods))

CallTechnicalIndicators ==
    Call("calculate_technical_indicators", calculate_technical_indicators(fdf))

CallAnalyzeStock ==
    Call("analyze_stock", analyze_stock("AAPL", fdf))

CallAnalyzeComprehensive ==
    Call("analyze_stock_comprehensive", analyze_stock_comprehensive("AAPL", fdf))

\* StockComparator over stock_analysis.json as analyze_stock wrote it
CallTrendStrength ==
    Call("analyze_trend_strength",
         analyze_trend_strength("AAPL" :> analyze_stock("AAPL", fdf), "AAPL"))

\* StockComparator(json_file='advanced_stock_analysis.json')
CallTrendStrengthAdv ==
    Call("analyze_trend_strength_adv",
         analyze_trend_strength("AAPL" :> analyze_stock_comprehensive("AAPL", fdf), "AAPL"))

\* d.get(key): None for a missing key
DictGet(d, key) == IF key \in DOMAIN d THEN d[key] ELSE None

\* `value if value else placeholder`: what a consumer that tests the value's
\* truth goes on with; None stands for the placeholder ("Insufficient data",
\* "N/A", no line at all)
ShownIfTruthy(value) == IF Truthy(value) THEN value ELSE None

\* print_analysis: the Moving Averages lines and the Price Changes lines
print_analysis_shows(analysis) ==
    [moving_averages |-> [k \in DOMAIN analysis.moving_averages |->
                             ShownIfTruthy(analysis.moving_averages[k])],
     price_changes |-> [k \in {"15_day_change_%", "30_day_change_%"} |->
                             ShownIfTruthy(analysis.price_changes[k])]]

\* the row of main's SUMMARY COMPARISON table for an entry without 'error'
summary_row(analysis) ==
    [ma_15 |-> ShownIfTruthy(DictGet(analysis.moving_averages, "15d_MA")),
     ma_30 |-> ShownIfTruthy(DictGet(analysis.moving_averages, "30d_MA")),
     change_30 |-> ShownIfTruthy(analysis.price_changes["30_day_change_%"])]

\* plot_ma_summary: the bar heights of one symbol, in cents
plot_ma_values(loaded, symbol) ==
    [ma \in {"15d_MA", "30d_MA", "50d_MA"} |->
        IF symbol \in DOMAIN loaded /\ "moving_averages" \in DOMAIN loaded[symbol]
        THEN LET ma_val == DictGet(loaded[symbol].moving_averages, ma)
             IN  IF Truthy(ma_val) THEN ma_val[1] ELSE 0
        ELSE 0]

\* print_analysis(analysis) for the analysis of the series; on an error marker
\* it raises before it shows anything
CallPrintAnalysis ==
    LET analysis == analyze_stock("AAPL", fdf)
    IN  Call("print_analysis",
             IF print_analysis_raises(analysis) THEN [raised |-> "KeyError"]
             ELSE print_analysis_shows(analysis))

\* one pass of the loop of main's summary table; an entry with 'error' has no row
CallSummaryRow ==
    LET analysis == analyze_stock("AAPL", fdf)
    IN  Call("summary_row",
             IF "error" \in DOMAIN analysis THEN EmptyDict ELSE summary_row(analysis))

\* plot_ma_summary over stock_analysis.json as analyze_stock wrote it
CallPlotMaSummary ==
    Call("plot_ma_summary", plot_ma_values("AAPL" :> analyze_stock("AAPL", fdf), "AAPL"))

NextFn ==
    \/ CallMovingAverages
    \/ CallAdvMovingAverages
    \/ CallTechnicalIndicators
    \/ CallAnalyzeStock
    \/ CallAnalyzeComprehensive
    \/ CallTrendStrength
    \/ CallTrendStrengthAdv
    \/ CallPrintAnalysis
    \/ CallSummaryRow
    \/ CallPlotMaSummary

SpecFn == InitFn /\ [][NextFn]_vars

---------------------------------------------------------------------------
(* get_momentum_score on its own: one loaded batch in, one call *)

\* changes a record can hold, in 1/100 percent
ChangeValues == {-1000, -500, -1, 0, 1, 2, 500, 1000, 1234}

\* the entries a price_changes dict can have for one period: no key, None, a number
ChangeSlot(period) ==
    {EmptyDict} \cup {period :> None} \cup {period :> Some(v) : v \in ChangeValues}

ChangeDicts ==
    {c15 @@ c30 : c15 \in ChangeSlot("15_day_change_%"), c30 \in ChangeSlot("30_day_change_%")}

\* loaded batches with one ticker: a record with price_changes, or an error marker
ScoreBatches ==
    {TickerSeq[1] :> [symbol |-> TickerSeq[1], name |-> StockName(TickerSeq[1]),
                      price_changes |-> c] : c \in ChangeDicts}
    \cup {TickerSeq[1] :> ErrorMarker}

InitScore ==
    /\ InitFn
    /\ fdf = <<>>

\* comparator.get_momentum_score(symbol), the comparator holding batch d
CallMomentumScore ==
    \E d \in ScoreBatches, symbol \in {TickerSeq[1], TickerSeq[2]} :
        Call("get_momentum_score",
             [data |-> d, symbol |-> symbol, score |-> get_momentum_score(d, symbol)])

NextScore == CallMomentumScore

SpecScore == InitScore /\ [][NextScore]_vars

---------------------------------------------------------------------------
(* Properties *)

\* the fetch of the ticker failed: the supplier raised or returned no bars
FetchFailed(symbol) ==
    supplied[symbol].kind = "raise" \/ Len(supplied[symbol].bars) = 0

\* a full analysis record of the ticker
IsFullRecord(rec, symbol) ==
    /\ DOMAIN rec = {"symbol", "name", "current_stats", "moving_averages", "price_changes"}
    /\ rec.symbol = symbol

\* C1: whatever subset of the fetches fails, analyze_all_stocks goes through
\* the tracked tickers in order and ends with exactly one entry per tracked
\* ticker: an error marker where the fetch failed, a full record where it
\* succeeded.
C1_OneEntryPerTicker ==
    /\ DOMAIN results = DOMAIN supplied
    /\ pc = "analyze" => DOMAIN results = {TickerSeq[k] : k \in 1..(i - 1)}
    /\ pc # "analyze" => DOMAIN results = Tracked
    /\ \A t \in DOMAIN results :
          IF FetchFailed(t)
          THEN "error" \in DOMAIN results[t]
          ELSE "error" \notin DOMAIN results[t] /\ IsFullRecord(results[t], t)

\* C1 witness: the batch is complete, the first fetch failed and a later one
\* succeeded
C1_Witness ==
    /\ pc # "analyze"
    /\ FetchFailed(TickerSeq[1])
    /\ \E k \in 2..NumTickers : ~FetchFailed(TickerSeq[k])
    /\ \E k \in 2..NumTickers : FetchFailed(TickerSeq[k])

\* C2: with error markers in the loaded batch, generate_report never raises:
\* it goes through every section.
C2_ReportCompletes ==
    (rpc \notin {"idle", "no_data"} /\ \E t \in DOMAIN data : "error" \in DOMAIN data[t])
        => rpc # "KeyError"

\* C3: the run of main (analyze_all_stocks, print_analysis for each result,
\* save_to_json) is never aborted, whatever fetches fail.
C3_RunNeverAborted ==
    caller = "main" => pc # "KeyError"

\* the analysis the comparator is handed in CallTrendStrength(Adv)
LoadedRecord ==
    IF op = "analyze_trend_strength" THEN analyze_stock("AAPL", fdf)
    ELSE analyze_stock_comprehensive("AAPL", fdf)

\* (current_close - c) / c * 100, rounded to 2 decimals, with c the close h
\* bars before the latest bar
ChangeOverHorizon(df, h) == PctChange(10 * Round2(df[Len(df)]), df[Len(df) - h])

\* C4: a reported change for horizon h is (current_close - c) / c * 100 with c
\* the close of the bar exactly h positions before the latest bar.
C4_ChangeAgainstBarHBack ==
    /\ op = "analyze_stock_comprehensive" /\ "price_changes" \in DOMAIN out =>
          \A h \in change_days :
              (ChangeKey(h) \in DOMAIN out.price_changes /\ Len(fdf) > h)
                  => out.price_changes[ChangeKey(h)] = ChangeOverHorizon(fdf, h)
    /\ op = "analyze_stock" /\ "price_changes" \in DOMAIN out =>
          /\ (out.price_changes["15_day_change_%"] # None /\ Len(fdf) > 15)
                => out.price_changes["15_day_change_%"] = Some(ChangeOverHorizon(fdf, 15))
          /\ (out.price_changes["30_day_change_%"] # None /\ Len(fdf) > 30)
                => out.price_changes["30_day_change_%"] = Some(ChangeOverHorizon(fdf, 30))

\* C5: the change for horizon h is defined if and only if the series has
\* strictly more than h bars, each horizon on its own.
C5_ChangePresentIffLonger ==
    /\ op = "analyze_stock_comprehensive" /\ "price_changes" \in DOMAIN out =>
          \A h \in change_days :
              ChangeKey(h) \in DOMAIN out.price_changes <=> Len(fdf) > h
    /\ op = "analyze_stock" /\ "price_changes" \in DOMAIN out =>
          /\ out.price_changes["15_day_change_%"] # None <=> Len(fdf) > 15
          /\ out.price_changes["30_day_change_%"] # None <=> Len(fdf) > 30

\* C6: RSI_14 is reported for every series of at least 15 bars and absent for
\* every shorter one.
C6_RSIPresentFrom15Bars ==
    op = "calculate_technical_indicators" =>
        ("RSI_14" \in DOMAIN out <=> Len(fdf) >= 15)

\* C7: a reported RSI_14 is a number in [0, 100], never NaN, and is 100 exactly
\* when the losses over the trailing 14 deltas sum to 0.
C7_RSIRange ==
    (op = "calculate_technical_indicators" /\ "RSI_14" \in DOMAIN out) =>
        /\ ~out["RSI_14"].nan
        /\ out["RSI_14"].val >= 0
        /\ out["RSI_14"].val <= 10000
        /\ out["RSI_14"].val = 10000 <=> LossSum(fdf, Len(fdf) - 13, Len(fdf)) = 0

RECURSIVE SumBlock(_, _, _)
\* the closes of bars k..hi, added one by one
SumBlock(df, k, hi) == IF k > hi THEN 0 ELSE df[k] + SumBlock(df, k + 1, hi)

RECURSIVE SumFrom(_, _)
\* the closes from bar k to the latest bar, added block after block of 16 bars
SumFrom(df, k) ==
    IF k > Len(df) THEN 0
    ELSE LET hi == IF k + 15 < Len(df) THEN k + 15 ELSE Len(df)
         IN  SumBlock(df, k, hi) + SumFrom(df, hi + 1)

\* cents is the mean of the closes of the most recent p bars (in mills) rounded
\* to 2 decimals: no integer number of cents is nearer, and a tie goes to even
IsRoundedMean(cents, df, p) ==
    LET total == SumFrom(df, Len(df) - p + 1)
        err == Abs(10 * p * cents - total)
    IN  /\ 2 * err <= 10 * p
        /\ 2 * err = 10 * p => cents % 2 = 0

\* C8: for a non-empty series and every requested period p the p-day MA is
\* None when len(series) < p and otherwise the mean of the closes of the most
\* recent p bars rounded to 2 decimals.
C8_MovingAverage ==
    (op \in {"calculate_moving_averages", "adv_calculate_moving_averages"} /\ Len(fdf) > 0) =>
        \A p \in ma_periods :
            /\ MAKey(p) \in DOMAIN out
            /\ IF Len(fdf) < p
               THEN out[MAKey(p)] = None
               ELSE /\ out[MAKey(p)] # None
                    /\ IsRoundedMean(out[MAKey(p)][1], fdf, p)

\* C8 witness: a series of exactly 30 uneven bars: the 15-day and the 30-day MA
\* are reported, the 50-day MA is absent
C8_Witness ==
    /\ op = "calculate_moving_averages"
    /\ Len(fdf) = 30
    /\ fdf[1] # fdf[2]
    /\ out["15d_MA"] # None
    /\ out["30d_MA"] # None
    /\ out["30d_MA"] # out["15d_MA"]
    /\ out["50d_MA"] = None

\* the periods whose moving average has a defined value in the record
DefinedMAs(rec) == {p \in ma_periods : rec.moving_averages[MAKey(p)] # None}

\* C9: total_mas is the number of moving averages with a defined value,
\* above_mas the number of those the current price strictly exceeds, and
\* strength_score is 100 * above_mas / total_mas (to 1 decimal), 0 when
\* total_mas is 0; so 0 <= above_mas <= total_mas and 0 <= score <= 100.
C9_TrendCounts ==
    (op \in {"analyze_trend_strength", "analyze_trend_strength_adv"} /\ DOMAIN out # {}) =>
        LET rec == LoadedRecord
            price == rec.current_stats.current_price
        IN  /\ out.total_mas = Cardinality(DefinedMAs(rec))
            /\ out.above_mas =
                   Cardinality({p \in DefinedMAs(rec) : price > rec.moving_averages[MAKey(p)][1]})
            /\ out.above_mas >= 0
            /\ out.above_mas <= out.total_mas
            /\ out.strength_score >= 0
            /\ out.strength_score <= 1000
            /\ out.total_mas = 0 => out.strength_score = 0
            /\ out.total_mas > 0 =>
                   2 * Abs(out.strength_score * out.total_mas - 1000 * out.above_mas)
                       <= out.total_mas

\* the label the thresholds give a score held in tenths
LabelOfScore(score) ==
    IF score >= 800 THEN "Strong Bullish"
    ELSE IF score >= 600 THEN "Moderately Bullish"
    ELSE IF score >= 400 THEN "Neutral"
    ELSE IF score >= 200 THEN "Moderately Bearish"
    ELSE "Strong Bearish"

\* C10: the label is decided by the strength score alone with inclusive lower
\* bounds 80 / 60 / 40 / 20, and agrees with the strength_score returned in the
\* same result.
C10_TrendLabel ==
    (op \in {"analyze_trend_strength", "analyze_trend_strength_adv"} /\ DOMAIN out # {}) =>
        /\ out.trend = LabelOfScore(out.strength_score)
        /\ out.trend = "Strong Bullish" <=> 100 * out.above_mas >= 80 * out.total_mas /\ out.total_mas > 0
        /\ out.trend = "Strong Bearish" <=> 100 * out.above_mas < 20 * out.total_mas \/ out.total_mas = 0

\* C10 witness: a score of exactly 40.0 (2 of 5 MAs below the price) is Neutral
C10_Witness ==
    /\ op = "analyze_trend_strength"
    /\ DOMAIN out # {}
    /\ out.above_mas = 2
    /\ out.total_mas = 5
    /\ out.strength_score = 400
    /\ out.trend = "Neutral"


\* C11: get_momentum_score returns 0.4*c15 + 0.6*c30 (to 2 decimals) when both
\* changes are defined, the one defined change itself when only one is, and 0
\* when none is or the ticker has no price changes; a change of 0 is a defined one.
C11_MomentumScore ==
    op = "get_momentum_score" =>
      LET d == out.data
          symbol == out.symbol
          changes == d[symbol].price_changes
          Defined(period) == period \in DOMAIN changes /\ changes[period] # None
          c15 == changes["15_day_change_%"][1]
          c30 == changes["30_day_change_%"][1]
      IN  IF symbol \notin DOMAIN d \/ "price_changes" \notin DOMAIN d[symbol]
          THEN out.score = 0
          ELSE /\ Defined("15_day_change_%") /\ Defined("30_day_change_%")
                    => Abs(10 * out.score - (4 * c15 + 6 * c30)) < 5
               /\ Defined("15_day_change_%") /\ ~Defined("30_day_change_%")
                    => out.score = c15
               /\ ~Defined("15_day_change_%") /\ Defined("30_day_change_%")
                    => out.score = c30
               /\ ~Defined("15_day_change_%") /\ ~Defined("30_day_change_%")
                    => out.score = 0

\* a 15-day change of 0 weighs in beside a 30-day change of +10.00: score +6.00
C11_Witness ==
    /\ op = "get_momentum_score"
    /\ out.symbol \in DOMAIN out.data
    /\ "price_changes" \in DOMAIN out.data[out.symbol]
    /\ out.data[out.symbol].price_changes = ("15_day_change_%" :> Some(0))
                                             @@ ("30_day_change_%" :> Some(1000))
    /\ out.score = 600


\* the ticker has a number, not None and not nothing, for the period
ChangeDefined(d, symbol, period) ==
    /\ "price_changes" \in DOMAIN d[symbol]
    /\ period \in DOMAIN d[symbol].price_changes
    /\ d[symbol].price_changes[period] # None

\* ranking lists exactly the tickers with a defined change, each once with its
\* change, in non-increasing order
IsRankingOf(ranking, d, period) ==
    /\ {ranking[k][1] : k \in 1..Len(ranking)} = {t \in DOMAIN d : ChangeDefined(d, t, period)}
    /\ \A j, k \in 1..Len(ranking) : j # k => ranking[j][1] # ranking[k][1]
    /\ \A k \in 1..Len(ranking) : ranking[k][2] = d[ranking[k][1]].price_changes[period][1]
    /\ \A j, k \in 1..Len(ranking) : j < k => ranking[j][2] >= ranking[k][2]

\* C12: for every loaded batch and horizon get_best_performers returns exactly
\* the tickers whose change is defined (0 included, None and errored records
\* excluded), each once, in non-increasing order; the head holds the maximum and
\* the tail the minimum, and these are the best and worst the report names.
C12_BestPerformers ==
    /\ rpc \notin {"idle", "no_data"} =>
          \A period \in {"15_day_change_%", "30_day_change_%"} :
             LET ranking == get_best_performers(data, period)
             IN  /\ IsRankingOf(ranking, data, period)
                 /\ \A t \in DOMAIN data : ChangeDefined(data, t, period) =>
                       /\ ranking[1][2] >= data[t].price_changes[period][1]
                       /\ ranking[Len(ranking)][2] =< data[t].price_changes[period][1]
    /\ rpc \notin {"idle", "no_data", "perf"} =>
          IsRankingOf(performers, data, "30_day_change_%")
    /\ rpc = "done" /\ performers # <<>> =>
          /\ insights.best = <<performers[1]>>
          /\ insights.worst = <<performers[Len(performers)]>>

\* A = +10.00, B = -5.00, C without a 30-day change: the ranking is [A, B]
C12_Witness ==
    /\ rpc = "trend"
    /\ "price_changes" \in DOMAIN data[TickerSeq[3]]
    /\ "30_day_change_%" \in DOMAIN data[TickerSeq[3]].price_changes
    /\ data[TickerSeq[3]].price_changes["30_day_change_%"] = None
    /\ performers = << <<TickerSeq[1], 1000>>, <<TickerSeq[2], -500>> >>


\* the tracked symbols in ascending (lexicographic) order
SymbolsAscending == <<"AAPL", "AMZN", "GOOGL", "META", "MSFT", "NFLX", "NVDA", "UBER">>

SymbolRank(symbol) == CHOOSE k \in 1..Len(SymbolsAscending) : SymbolsAscending[k] = symbol

\* pairs of equal value stand in ascending order of their symbols
TiesBySymbol(ranking) ==
    \A j, k \in 1..Len(ranking) :
        j < k /\ ranking[j][2] = ranking[k][2] => SymbolRank(ranking[j][1]) < SymbolRank(ranking[k][1])

\* C13: in the momentum ranking and in the best-performers ranking of
\* generate_report two tickers of equal score stand in ascending symbol order,
\* so the rankings do not depend on the order of the tickers in the batch.
C13_TiesBySymbol ==
    /\ rpc \in {"trend", "momentum", "prices", "insights", "done"} => TiesBySymbol(performers)
    /\ rpc \in {"prices", "insights", "done"} => TiesBySymbol(momentum_scores)


\* C14: a consumer of an analysis record shows a value computed as 0 as a
\* value and only None as insufficient history: print_analysis and main's
\* summary table give the placeholder exactly for None, and plot_ma_summary
\* draws no bar of height 0 for a moving average that is None.
C14_ZeroIsNotAbsent ==
    LET analysis == analyze_stock("AAPL", fdf)
    IN  /\ op = "print_analysis" /\ "raised" \notin DOMAIN out =>
              /\ \A k \in DOMAIN out.moving_averages :
                    (out.moving_averages[k] = None) <=> (analysis.moving_averages[k] = None)
              /\ \A k \in DOMAIN out.price_changes :
                    (out.price_changes[k] = None) <=> (analysis.price_changes[k] = None)
        /\ op = "summary_row" /\ DOMAIN out # {} =>
              /\ (out.ma_15 = None) <=> (analysis.moving_averages["15d_MA"] = None)
              /\ (out.ma_30 = None) <=> (analysis.moving_averages["30d_MA"] = None)
              /\ (out.change_30 = None) <=> (analysis.price_changes["30_day_change_%"] = None)
        /\ op = "plot_ma_summary" /\ "moving_averages" \in DOMAIN analysis =>
              \A ma \in DOMAIN out : analysis.moving_averages[ma] = None => out[ma] # 0


\* the closes of the trailing 252 bars
Trailing252(df) == {df[k] : k \in (Len(df) - 251)..Len(df)}

\* C15: calculate_technical_indicators reports 52w_high and 52w_low exactly
\* when the series has at least 252 bars; they are then the greatest and the
\* least close of the trailing 252 bars (to the cent), so the latest close (to
\* the cent) lies between them, and for strictly ascending closes the low is
\* the first and the high the last of the window; below 252 bars both are absent.
C15_Range52w ==
    op = "calculate_technical_indicators" =>
      /\ ("52w_high" \in DOMAIN out) <=> (Len(fdf) >= 252)
      /\ ("52w_low" \in DOMAIN out) <=> (Len(fdf) >= 252)
      /\ Len(fdf) >= 252 =>
            LET n == Len(fdf)
                highest == CHOOSE c \in Trailing252(fdf) : \A x \in Trailing252(fdf) : c >= x
                lowest == CHOOSE c \in Trailing252(fdf) : \A x \in Trailing252(fdf) : c =< x
            IN  /\ out["52w_high"] = Round2(highest)
                /\ out["52w_low"] = Round2(lowest)
                /\ out["52w_low"] =< Round2(fdf[n])
                /\ Round2(fdf[n]) =< out["52w_high"]
                /\ (\A k \in (n - 251)..(n - 1) : fdf[k] < fdf[k + 1]) =>
                      /\ out["52w_low"] = Round2(fdf[n - 251])
                      /\ out["52w_high"] = Round2(fdf[n])

\* 252 ascending closes 100.00 .. 351.00: high 351.00, low 100.00
C15_Witness ==
    /\ op = "calculate_technical_indicators"
    /\ fdf = Series("up", 252)
    /\ "52w_high" \in DOMAIN out
    /\ out["52w_high"] = 35100
    /\ out["52w_low"] = 10000


\* C16: a moving average or a 15-/30-day change that is None because the
\* series is shorter than the window never makes reporting raise:
\* generate_report and display_summary do not end in a TypeError on it.
C16_AbsentNeverRaises ==
    /\ rpc # "TypeError"
    /\ spc # "TypeError"


\* q is a hundredth nearest to 10000 * num / den (den > 0), checked without
\* forming the product: with num = a * den + r and den = 20000 * u + v, q is
\* nearest iff (j - 1) * den <= 20000 * r <= (j + 1) * den for j = 2q - 20000a
IsNearestPct(q, num, den) ==
    LET a == num \div den
        r == num % den
        j == 2 * q - 20000 * a
        u == den \div 20000
        v == den % 20000
    IN  /\ j >= -1
        /\ j <= 20001
        /\ (j - 1) * u + ((j - 1) * v + 19999) \div 20000 =< r
        /\ r =< (j + 1) * u + ((j + 1) * v) \div 20000

\* the periods whose MA the call reported
ReportedMAs == {p \in ma_periods : out[MAKey(p)] # None}

\* p * (latest close - mean of the last p closes)
CloseMinusMA(p) == p * ILoc(fdf, 1) - TailSum(fdf, p)

\* C17 as stated: the reported deviation from a p-day MA is positive exactly
\* when the latest close is above the MA, negative exactly when it is below,
\* zero only when they are equal, and it is (close - MA) / MA * 100 to 2 decimals.
C17_DeviationSign ==
    (op = "adv_calculate_moving_averages" /\ DOMAIN out # {}) =>
        \A p \in ReportedMAs :
            LET diff == out[MADiffKey(p)][1]
            IN  /\ out[MADiffKey(p)] # None
                /\ (diff > 0) <=> (CloseMinusMA(p) > 0)
                /\ (diff < 0) <=> (CloseMinusMA(p) < 0)
                /\ (diff = 0) => (CloseMinusMA(p) = 0)
                /\ IsNearestPct(diff, CloseMinusMA(p), TailSum(fdf, p))

\* C17 amended: the reported deviation is (close - MA) / MA * 100 to 2
\* decimals; it is positive only when the close is above the MA, negative only
\* when it is below, and zero exactly when they differ by at most 0.005% of
\* the MA (in particular when they are equal).
C17_DeviationSignRounded ==
    (op = "adv_calculate_moving_averages" /\ DOMAIN out # {}) =>
        /\ \A p \in ma_periods : (out[MAKey(p)] = None) <=> (out[MADiffKey(p)] = None)
        /\ \A p \in ReportedMAs :
              LET diff == out[MADiffKey(p)][1]
              IN  /\ (diff > 0) => (CloseMinusMA(p) > 0)
                  /\ (diff < 0) => (CloseMinusMA(p) < 0)
                  /\ (CloseMinusMA(p) = 0) => (diff = 0)
                  /\ (diff = 0) <=> (Abs(CloseMinusMA(p)) =< TailSum(fdf, p) \div 20000)
                  /\ IsNearestPct(diff, CloseMinusMA(p), TailSum(fdf, p))

\* 14 closes of 1000.00 then 1000.01: the close is above the 15-day MA and the
\* deviation is reported as 0.00
C17_Witness ==
    /\ op = "adv_calculate_moving_averages"
    /\ fdf = Series("nudge", 15)
    /\ CloseMinusMA(15) > 0
    /\ out["15d_MA_diff_%"] = Some(0)


\* the tickers of the loaded batch for which analyze_trend_strength gives an
\* assessment, and whose strength_score (in tenths) passes the test
AssessedWith(Test(_)) ==
    {t \in DOMAIN data :
        LET trend_data == analyze_trend_strength(data, t)
        IN  DOMAIN trend_data # {} /\ Test(trend_data.strength_score)}

AtLeast80(score) == score >= 800

Below40(score) == score < 400

SeqToSet(seq) == {seq[k] : k \in 1..Len(seq)}

\* C18: in the report the strong bullish cohort is exactly the tickers whose
\* assessment has strength_score >= 80 and the weak cohort exactly those whose
\* assessment has strength_score < 40; a ticker without an assessment is in neither.
C18_Cohorts ==
    rpc = "done" =>
        /\ SeqToSet(insights.strong_bullish) = AssessedWith(AtLeast80)
        /\ SeqToSet(insights.bearish) = AssessedWith(Below40)

=============================================================================
